---- MODULE Spec2Model ----
(***************************************************************************)
(* Model of the model-ingestion pipeline of Simple-3D-Viewer (the App      *)
(* component of frontend/src): main-file selection, the per-load blob URL  *)
(* cache, the asynchronous loadFiles state machine with its dispose/clear  *)
(* handling, and the morph-target binder.                                  *)
(*                                                                         *)
(* A string that the code splits is modelled as a sequence of tokens in    *)
(* which the separators (".", "/", "?") are tokens of their own, so that   *)
(* split / pop / indexOf are computed as the code computes them.           *)
(***************************************************************************)
EXTENDS Integers, Sequences, FiniteSets, TLC

\* ------------------------------------------------------------------ bounds
MaxFiles == 3
MaxLoads == 2
MaxClears == 1
MaxMeshes == 2
MaxRequests == 3
MaxQueries == 3

\* ------------------------------------------------------- program constants
SUPPORTED_FORMATS == <<"drc", "glb", "gltf", "obj", "ply", "stl", "usd", "usdz">>

FORMAT_PRIORITY == <<"gltf", "glb", "usdz", "usd", "drc", "obj", "ply", "stl">>

UnrankedScore == 999

\* JavaScript's undefined / null
Undefined == <<>>

\* --------------------------------------------------------- string helpers
\* String.prototype.split(sep) on a token sequence
RECURSIVE SplitFrom(_, _, _, _, _)
SplitFrom(s, sep, i, cur, acc) ==
  IF i > Len(s) THEN Append(acc, cur)
  ELSE IF s[i] = sep THEN SplitFrom(s, sep, i + 1, <<>>, Append(acc, cur))
  ELSE SplitFrom(s, sep, i + 1, Append(cur, s[i]), acc)

Split(s, sep) == SplitFrom(s, sep, 1, <<>>, <<>>)

\* String.prototype.toLowerCase on one token
toLowerCase(t) ==
  CASE t = "GLB" -> "glb"
    [] t = "Gltf" -> "gltf"
    [] t = "STL" -> "stl"
    [] t = "PNG" -> "png"
    [] OTHER -> t

\* the text of one part of a split (a part holds at most one token)
PartText(p) == IF Len(p) = 0 THEN "" ELSE p[1]

\* Array.prototype.indexOf, 0-based, -1 when absent
indexOf(arr, x) ==
  IF \E i \in 1..Len(arr) : arr[i] = x
  THEN (CHOOSE i \in 1..Len(arr) : arr[i] = x /\ \A j \in 1..(i - 1) : arr[j] # x) - 1
  ELSE -1

includes(arr, x) == \E i \in 1..Len(arr) : arr[i] = x

\* ------------------------------------------------------ Extension Resolver
getExtensionNoLower(filename) ==
  LET parts == Split(filename, ".")
  IN IF Len(parts) < 2 THEN "" ELSE PartText(parts[Len(parts)])

getExtension(filename) ==
  LET parts == Split(filename, ".")
  IN IF Len(parts) < 2 THEN "" ELSE toLowerCase(PartText(parts[Len(parts)]))

score(filename) ==
  LET s == indexOf(FORMAT_PRIORITY, getExtension(filename))
  IN IF s = -1 THEN UnrankedScore ELSE s

\* the comparator handed to sort: negative when a goes before b
compareFiles(a, b) == score(a) - score(b)

\* Array.prototype.sort is stable: insert each element after the last
\* element that does not compare greater than it
RECURSIVE InsertSorted(_, _)
InsertSorted(sorted, f) ==
  IF sorted = <<>> THEN <<f>>
  ELSE IF compareFiles(sorted[Len(sorted)], f) <= 0 THEN Append(sorted, f)
  ELSE Append(InsertSorted(SubSeq(sorted, 1, Len(sorted) - 1), f), sorted[Len(sorted)])

RECURSIVE SortFrom(_, _, _)
SortFrom(files, i, acc) ==
  IF i > Len(files) THEN acc ELSE SortFrom(files, i + 1, InsertSorted(acc, files[i]))

sortFiles(files) == SortFrom(files, 1, <<>>)

\* find without its predicate
findFirst(arr) == IF Len(arr) > 0 THEN arr[1] ELSE Undefined

\* Array.prototype.find with the SUPPORTED_FORMATS predicate
findSupported(arr) ==
  IF \E i \in 1..Len(arr) : includes(SUPPORTED_FORMATS, getExtension(arr[i]))
  THEN arr[CHOOSE i \in 1..Len(arr) :
             /\ includes(SUPPORTED_FORMATS, getExtension(arr[i]))
             /\ \A j \in 1..(i - 1) : ~includes(SUPPORTED_FORMATS, getExtension(arr[j]))]
  ELSE Undefined

pickMainFileUnsorted(files) == findSupported(files)

pickMainFile(files) == findSupported(sortFiles(files))


\* ------------------------------------------------------------ file names
\* every file name that a file set can contain
NamePool ==
  { <<"scene", ".", "gltf">>, <<"scene", ".", "obj">>, <<"a", ".", "GLB">>,
    <<"b", ".", "glb">>, <<"tex", ".", "png">>, <<"README">>,
    <<"scene", ".", "bin">>, <<"part", ".", "tar", ".", "STL">>,
    <<"cloud", ".", "ply">>, <<"m", ".", "drc">>, <<"s", ".", "usdz">>,
    <<"s", ".", "usd">>, <<"notes", ".">> }

\* SourceFileSet: ordered, unique by name
FileSets ==
  { fs \in UNION { [1..n -> NamePool] : n \in 0..MaxFiles } :
      \A i, j \in 1..Len(fs) : i # j => fs[i] # fs[j] }

\* ------------------------------------------------------------------ state
VARIABLES
  model,        \* useState<ModelState | null>: 0 is null, else the id of the load that built it
  loading,      \* useState(false)
  error,        \* useState<string | null>: "none" is null
  fitSignal,    \* useState(0)
  disposed,     \* model objects on which disposeObject has run
  loads,        \* one record per loadFiles invocation (its closure and position)
  blobStore,    \* object URLs created by URL.createObjectURL and not yet revoked
  revokedUrls,  \* object URLs passed to URL.revokeObjectURL
  decodeCalls,  \* number of loader.load / loader.parse calls issued
  clears,       \* number of handleClear calls
  inFiles,      \* argument of a pickMainFile call
  picked,       \* result of that call
  object,       \* model.object: the nodes of the active scene graph in traversal order
  morphTargets, \* useState<MorphTargetInfo[]>([])
  morphValues,  \* useState<Record<string, number>>({})
  calls,        \* the last two calls made to applyMorphValue / resetMorphTargets
  decoded,      \* what the decoder of a load resolved with
  stats,        \* model.stats
  customProperties, \* model.customProperties
  written,      \* the morph names that a morph call has written since the load
  closure,      \* the URL cache, file map and LoadingManager of one loadFiles invocation
  probe         \* the refs, effects and WebGL queries of PerformanceProbe

vars == <<model, loading, error, fitSignal, disposed, loads, blobStore,
          revokedUrls, decodeCalls, clears, inFiles, picked,
          object, morphTargets, morphValues, calls,
          decoded, stats, customProperties, written, closure, probe>>

appVars == <<model, loading, error, fitSignal, disposed, loads, blobStore,
             revokedUrls, decodeCalls, clears>>

pickVars == <<inFiles, picked>>

morphVars == <<object, morphTargets, morphValues, calls, written>>

recordVars == <<decoded, stats, customProperties>>

sideVars == <<closure, probe>>

\* Record<string, number> with no key
EmptyRecord == [k \in {} |-> 0]

NoMorph ==
  /\ object = <<>>
  /\ morphTargets = <<>>
  /\ morphValues = EmptyRecord
  /\ calls = <<>>
  /\ written = {}

\* no decoder result and no model record at hand
NoRecord ==
  /\ decoded = Undefined
  /\ stats = Undefined
  /\ customProperties = <<>>

\* no single-load closure and no probe under observation
NoSide ==
  /\ closure = Undefined
  /\ probe = Undefined

LoadIds == 1..MaxLoads

IdleLoad ==
  [pc |-> "idle", files |-> <<>>, mainFile |-> Undefined, captured |-> 0, cache |-> {}]

InitApp ==
  /\ model = 0
  /\ loading = FALSE
  /\ error = "none"
  /\ fitSignal = 0
  /\ disposed = {}
  /\ loads = [l \in LoadIds |-> IdleLoad]
  /\ blobStore = {}
  /\ revokedUrls = {}
  /\ decodeCalls = 0
  /\ clears = 0

\* ------------------------------------------- pickMainFile as an operation
InitPick ==
  /\ InitApp
  /\ NoMorph
  /\ NoRecord
  /\ NoSide
  /\ inFiles \in FileSets
  /\ picked = [done |-> FALSE, result |-> Undefined]

PickMain ==
  /\ ~picked.done
  /\ picked' = [done |-> TRUE, result |-> pickMainFile(inFiles)]
  /\ UNCHANGED <<inFiles, appVars, morphVars, recordVars, sideVars>>

NextPick == PickMain

SpecPick == InitPick /\ [][NextPick]_vars


\* ------------------------------------------------- loadFiles (App state)
\* In Spec a loaded model is identified by the load that built it and its
\* scene graph is opaque; SpecMorph below starts from a completed load and
\* works on the nodes of the scene graph.
\* file sets handed to handleInput / handleDrop
SupportedInputs ==
  { << <<"a", ".", "GLB">> >>,
    << <<"tex", ".", "png">>, <<"scene", ".", "gltf">> >>,
    << <<"s", ".", "usdz">> >> }

\* file sets without a model file
UnsupportedInputs ==
  { << <<"README">> >>,
    << <<"tex", ".", "png">>, <<"scene", ".", "bin">> >>,
    << <<"notes", ".">>, <<"README">>, <<"tex", ".", "png">> >> }

LoadInputs == SupportedInputs \cup UnsupportedInputs \cup { <<>> }

\* the bundled example fetched by handleExample
ExampleFile == <<"RobotExpressive", ".", "glb">>

\* sub-resource URLs that a glTF document asks the LoadingManager to resolve
RequestUrls ==
  { <<"scene", ".", "bin">>,
    <<"textures", "/", "tex", ".", "png", "?", "v=2">>,
    <<"https:", "/", "/", "cdn", "/", "other", ".", "png">> }

\* decodeURIComponent on one token
decodeToken(t) ==
  CASE t = "my%20tex" -> "my tex"
    [] OTHER -> t

decodeURIComponent(u) == [i \in 1..Len(u) |-> decodeToken(u[i])]

\* Array.prototype.pop on the result of a split
pop(parts) == parts[Len(parts)]

\* fileMap.get(filename) of new Map(files.map(file => [file.name, file]))
fileMapGet(files, filename) ==
  IF \E i \in 1..Len(files) : files[i] = filename THEN filename ELSE Undefined

\* the file name that the URL modifier looks up for a requested url
modifierFilename(url) ==
  LET clean == decodeURIComponent(Split(url, "?")[1])
  IN pop(Split(clean, "/"))

\* extensions whose decoder branch loads the main file through getUrl(mainFile)
UrlFormats == {"glb", "gltf", "obj", "ply", "stl", "drc"}

\* a dispatch that lacks the usd branch
BufferFormatsWithoutUsd == {"usdz"}

\* extensions decoded from mainFile.arrayBuffer()
BufferFormats == {"usd", "usdz"}

InFlight(l) == loads[l].pc \in {"decoding", "reading"}

\* the slot that the next handler invocation takes
FreeLoad(l) ==
  /\ loads[l].pc = "idle"
  /\ \A k \in LoadIds : k < l => loads[k].pc # "idle"

\* a start or clear that skips the disposal
noDispose(captured) == disposed

\* disposeObject(model.object) guarded by if (model)
disposeCaptured(captured) == IF captured # 0 THEN disposed \cup {captured} ELSE disposed

\* revokeAll(): cache.forEach(url => URL.revokeObjectURL(url)); cache.clear()
cacheUrls(l) == { <<l, n>> : n \in loads[l].cache }

\* the synchronous part of loadFiles(files, source), run with the model that
\* the calling closure captured, for the load slot l
loadFiles(l, files, captured) ==
  IF Len(files) = 0 THEN UNCHANGED appVars
  ELSE LET mainFile == pickMainFile(files) IN
    IF mainFile = Undefined
    THEN /\ error' = "errorUnsupported"
         /\ loads' = [loads EXCEPT ![l] = IdleLoad]
         /\ UNCHANGED <<model, loading, fitSignal, disposed, blobStore,
                        revokedUrls, decodeCalls, clears>>
    ELSE LET extension == getExtension(mainFile) IN
      /\ disposed' = disposeCaptured(captured)
      /\ UNCHANGED <<model, fitSignal, revokedUrls, clears>>
      /\ CASE extension \in UrlFormats ->
                /\ loading' = TRUE
                /\ error' = "none"
                /\ blobStore' = blobStore \cup {<<l, mainFile>>}
                /\ decodeCalls' = decodeCalls + 1
                /\ loads' = [loads EXCEPT ![l] =
                     [pc |-> "decoding", files |-> files, mainFile |-> mainFile,
                      captured |-> captured, cache |-> {mainFile}]]
           [] extension \in BufferFormats ->
                /\ loading' = TRUE
                /\ error' = "none"
                /\ UNCHANGED <<blobStore, decodeCalls>>
                /\ loads' = [loads EXCEPT ![l] =
                     [pc |-> "reading", files |-> files, mainFile |-> mainFile,
                      captured |-> captured, cache |-> {}]]
           [] OTHER ->
                \* throw new Error("unsupported"): catch and finally run at once
                /\ loading' = FALSE
                /\ error' = "errorLoad"
                /\ UNCHANGED <<blobStore, decodeCalls>>
                /\ loads' = [loads EXCEPT ![l] =
                     [pc |-> "failed", files |-> files, mainFile |-> mainFile,
                      captured |-> captured, cache |-> {}]]

\* handleInput / handleDrop: loadFiles of the current render, whose closure
\* holds the current model
HandleFiles(files) ==
  /\ \E l \in LoadIds : FreeLoad(l) /\ loadFiles(l, files, model)
  /\ UNCHANGED <<pickVars, morphVars, recordVars, sideVars>>

\* handleExample / handleMorphExample up to the first await: the handler keeps
\* the loadFiles of the render in which the button was pressed
HandleExample ==
  /\ \E l \in LoadIds :
       /\ FreeLoad(l)
       /\ loads' = [loads EXCEPT ![l] = [IdleLoad EXCEPT !.pc = "fetching", !.captured = model]]
  /\ UNCHANGED <<model, loading, error, fitSignal, disposed, blobStore,
                 revokedUrls, decodeCalls, clears, pickVars, morphVars, recordVars, sideVars>>

\* fetch and response.blob() resolved: loadFiles([file], "example")
FetchResolve(l) ==
  /\ loads[l].pc = "fetching"
  /\ loadFiles(l, <<ExampleFile>>, loads[l].captured)
  /\ UNCHANGED <<pickVars, morphVars, recordVars, sideVars>>

\* fetch rejected: the handler ends without calling loadFiles
FetchReject(l) ==
  /\ loads[l].pc = "fetching"
  /\ loads' = [loads EXCEPT ![l] = IdleLoad]
  /\ UNCHANGED <<model, loading, error, fitSignal, disposed, blobStore,
                 revokedUrls, decodeCalls, clears, pickVars, morphVars, recordVars, sideVars>>

\* manager.setURLModifier callback, called by the glTF decoder for a
\* sub-resource while the decode is pending
UrlModifier(l, url) ==
  /\ loads[l].pc = "decoding"
  /\ getExtension(loads[l].mainFile) \in {"glb", "gltf"}
  /\ LET match == fileMapGet(loads[l].files, modifierFilename(url)) IN
       /\ match # Undefined
       /\ match \notin loads[l].cache
       /\ loads' = [loads EXCEPT ![l].cache = @ \cup {match}]
       /\ blobStore' = blobStore \cup {<<l, match>>}
  /\ UNCHANGED <<model, loading, error, fitSignal, disposed, revokedUrls,
                 decodeCalls, clears, pickVars, morphVars, recordVars, sideVars>>

\* a completion guarded by a load-generation check, which the code lacks
setModelIfNewest(l) == IF \E k \in LoadIds : k > l /\ loads[k].pc # "idle" THEN model ELSE l

\* setModel({object: loadedObject, ...}): the record built by load l
setModel(l) == l

\* the awaited decode resolved: revokeAll, normalisation, getModelStats,
\* setModel, setFitSignal, then finally setLoading(false), on the App state
resolveLoad(l) ==
  /\ InFlight(l)
  /\ IF loads[l].pc = "decoding"
     THEN /\ revokedUrls' = revokedUrls \cup cacheUrls(l)
          /\ blobStore' = blobStore \ cacheUrls(l)
          /\ UNCHANGED decodeCalls
     ELSE /\ decodeCalls' = decodeCalls + 1
          /\ UNCHANGED <<revokedUrls, blobStore>>
  /\ loads' = [loads EXCEPT ![l].pc = "done", ![l].cache = {}]
  /\ model' = setModel(l)
  /\ fitSignal' = fitSignal + 1
  /\ loading' = FALSE
  /\ UNCHANGED <<error, disposed, clears>>

\* a resolve in the load lifecycle, where the scene graph is opaque
DecodeResolve(l) == resolveLoad(l) /\ UNCHANGED <<pickVars, morphVars, recordVars, sideVars>>

\* the awaited decode rejected (or loader.parse threw): catch sets the error,
\* finally clears the loading flag, on the App state
rejectLoad(l) ==
  /\ InFlight(l)
  /\ IF loads[l].pc = "decoding"
     THEN UNCHANGED decodeCalls
     ELSE \E parsed \in BOOLEAN : decodeCalls' = IF parsed THEN decodeCalls + 1 ELSE decodeCalls
  /\ loads' = [loads EXCEPT ![l].pc = "failed"]
  /\ error' = "errorLoad"
  /\ loading' = FALSE
  /\ UNCHANGED <<model, fitSignal, disposed, blobStore, revokedUrls, clears>>

\* a reject in the load lifecycle
DecodeReject(l) == rejectLoad(l) /\ UNCHANGED <<pickVars, morphVars, recordVars, sideVars>>

\* handleClear
handleClear ==
  /\ clears < MaxClears
  /\ clears' = clears + 1
  /\ disposed' = disposeCaptured(model)
  /\ model' = 0
  /\ error' = "none"
  /\ fitSignal' = fitSignal + 1
  /\ UNCHANGED <<loading, loads, blobStore, revokedUrls, decodeCalls, pickVars, morphVars, recordVars, sideVars>>

Init ==
  /\ InitApp
  /\ NoMorph
  /\ NoRecord
  /\ NoSide
  /\ inFiles = <<>>
  /\ picked = [done |-> FALSE, result |-> Undefined]

Next ==
  \/ \E files \in LoadInputs : HandleFiles(files)
  \/ HandleExample
  \/ \E l \in LoadIds : FetchResolve(l)
  \/ \E l \in LoadIds : FetchReject(l)
  \/ \E l \in LoadIds, url \in RequestUrls : UrlModifier(l, url)
  \/ \E l \in LoadIds : DecodeResolve(l)
  \/ \E l \in LoadIds : DecodeReject(l)
  \/ handleClear

Spec == Init /\ [][Next]_vars

\* ------------------------------------------------------ Morph Target Binder
\* morph influences are kept in tenths: 4 is 0.4, 10 is 1
MorphValueSet == {0, 4, 10}

MorphNames == {"Smile", "Blink", "Jaw"}

\* a JSON / JavaScript value as far as hasCustomValue tells values apart:
\* its kind, the length of an array, the keys of an object, the text of a
\* scalar
JsUndefined == [kind |-> "undefined", length |-> 0, keys |-> {}, text |-> ""]

JsNull == [kind |-> "null", length |-> 0, keys |-> {}, text |-> ""]

JsArray(length) == [kind |-> "array", length |-> length, keys |-> {}, text |-> ""]

JsObject(keys) == [kind |-> "object", length |-> 0, keys |-> keys, text |-> ""]

JsScalar(kind, text) == [kind |-> kind, length |-> 0, keys |-> {}, text |-> text]

\* mesh.geometry: whether it is set, its position attribute and its index
NoGeometry ==
  [present |-> FALSE, hasPosition |-> FALSE, positionCount |-> 0,
   hasIndex |-> FALSE, indexCount |-> 0]

NoPosition ==
  [present |-> TRUE, hasPosition |-> FALSE, positionCount |-> 0,
   hasIndex |-> FALSE, indexCount |-> 0]

NonIndexed(positionCount) ==
  [present |-> TRUE, hasPosition |-> TRUE, positionCount |-> positionCount,
   hasIndex |-> FALSE, indexCount |-> 0]

Indexed(positionCount, indexCount) ==
  [present |-> TRUE, hasPosition |-> TRUE, positionCount |-> positionCount,
   hasIndex |-> TRUE, indexCount |-> indexCount]

\* a material: its uuid, its userData, metalness and roughness ("absent":
\* the material has no such property; "undefined", "null"; else the number
\* as text) and side.  The decoders' standard material comes with
\* metalness 1, roughness 1 and the front side.
MaterialWith(uuid, userData, metalness, roughness, side) ==
  [uuid |-> uuid, userData |-> userData, metalness |-> metalness,
   roughness |-> roughness, side |-> side]

Material(uuid, userData) == MaterialWith(uuid, userData, "1", "1", "front")

\* x ??= d
nullishAssign(x, d) == IF x \in {"undefined", "null"} THEN d ELSE x

\* the body of materials.forEach in prepareMeshMaterial, for a material that
\* is set
prepareMaterial(material) ==
  [material EXCEPT !.metalness = IF @ = "absent" THEN @ ELSE nullishAssign(@, "0.1"),
                   !.roughness = IF @ = "absent" THEN @ ELSE nullishAssign(@, "0.6"),
                   !.side = "double"]

\* prepareMeshMaterial(mesh); an unset material has no entry in the list
prepareMeshMaterial(mesh) ==
  [mesh EXCEPT !.material = [j \in DOMAIN @ |-> prepareMaterial(@[j])]]

\* a traverse callback without the isMesh guard
normalizeEveryNode(child) ==
  prepareMeshMaterial([child EXCEPT !.castShadow = TRUE, !.receiveShadow = TRUE])

\* the callback of loadedObject.traverse in loadFiles.  updateMorphTargets
\* is three.js's and writes none of the fields below.
normalizeNode(child) ==
  IF child.isMesh
  THEN prepareMeshMaterial([child EXCEPT !.castShadow = TRUE, !.receiveShadow = TRUE])
  ELSE child

\* loadedObject.traverse(...) over the nodes in traversal order
traverseNormalize(obj) == [i \in DOMAIN obj |-> normalizeNode(obj[i])]

\* a scene-graph node: isMesh, the entries of morphTargetDictionary in
\* insertion order, morphTargetInfluences (hasInfluences FALSE: undefined),
\* the geometry, the material list (one entry for a single material),
\* userData and the shadow flags
Group ==
  [isMesh |-> FALSE, hasInfluences |-> FALSE, dict |-> <<>>, infl |-> <<>>,
   geometry |-> NoGeometry, material |-> <<>>, userData |-> JsObject({}),
   castShadow |-> FALSE, receiveShadow |-> FALSE]

PlainMesh ==
  [isMesh |-> TRUE, hasInfluences |-> FALSE, dict |-> <<>>, infl |-> <<>>,
   geometry |-> Indexed(4, 6),
   material |-> <<MaterialWith("m0", JsObject({}), "1", "1", "double")>>,
   userData |-> JsObject({}), castShadow |-> TRUE, receiveShadow |-> TRUE]

MorphMesh(dict, infl) ==
  [isMesh |-> TRUE, hasInfluences |-> TRUE, dict |-> dict, infl |-> infl,
   geometry |-> NonIndexed(4),
   material |-> <<MaterialWith("m0", JsObject({}), "1", "1", "double")>>,
   userData |-> JsObject({}), castShadow |-> TRUE, receiveShadow |-> TRUE]

Entry(name, index) == [name |-> name, index |-> index]

\* normalized scene graphs that a decode can have produced
Scenes ==
  { << Group,
       MorphMesh(<<Entry("Smile", 0), Entry("Blink", 1)>>, <<0, 0>>),
       MorphMesh(<<Entry("Jaw", 0), Entry("Blink", 1), Entry("Smile", 2)>>, <<10, 0, 0>>) >>,
    << MorphMesh(<<Entry("Smile", 0), Entry("Blink", 1)>>, <<4, 0>>),
       PlainMesh,
       MorphMesh(<<Entry("Smile", 0)>>, <<0>>) >>,
    << MorphMesh(<<Entry("Jaw", 0)>>, <<10>>), Group >>,
    << Group, PlainMesh >> }

\* a push that opens a new entry for every binding
mapPushAlwaysNew(map, name, binding) ==
  Append(map, [name |-> name, bindings |-> <<binding>>])

\* map.get(name)?.push({mesh, index}) after if (!map.has(name)) map.set(name, [])
mapPush(map, name, binding) ==
  IF \E t \in 1..Len(map) : map[t].name = name
  THEN [t \in 1..Len(map) |->
          IF map[t].name = name
          THEN [name |-> name, bindings |-> Append(map[t].bindings, binding)]
          ELSE map[t]]
  ELSE Append(map, [name |-> name, bindings |-> <<binding>>])

\* Object.entries(mesh.morphTargetDictionary).forEach(...)
RECURSIVE collectEntries(_, _, _, _)
collectEntries(obj, i, j, map) ==
  IF j > Len(obj[i].dict) THEN map
  ELSE collectEntries(obj, i, j + 1,
         mapPush(map, obj[i].dict[j].name, [mesh |-> i, index |-> obj[i].dict[j].index]))

\* object.traverse(child => ...)
RECURSIVE collectFrom(_, _, _)
collectFrom(obj, i, map) ==
  IF i > Len(obj) THEN map
  ELSE IF ~obj[i].isMesh \/ ~obj[i].hasInfluences THEN collectFrom(obj, i + 1, map)
  ELSE collectFrom(obj, i + 1, collectEntries(obj, i, 1, map))

collectMorphTargets(obj) == collectFrom(obj, 1, <<>>)

\* the effect on [model]: initialValues[target.name] read from the first binding
initialValues(obj, targets) ==
  [name \in { targets[t].name : t \in 1..Len(targets) } |->
     LET t == CHOOSE t \in 1..Len(targets) : targets[t].name = name
         firstBinding == targets[t].bindings[1]
     IN obj[firstBinding.mesh].infl[firstBinding.index + 1]]

\* the write made for one binding of target targetName, on the slot value old,
\* if every call were exclusive
bindingWriteAlwaysExclusive(targetName, name, value, exclusive, old) ==
  IF targetName # name THEN 0 ELSE value

\* the write made for one binding if no call were exclusive
bindingWriteNeverExclusive(targetName, name, value, exclusive, old) ==
  IF targetName = name THEN value ELSE old

\* the write applyMorphValue makes for one binding of target targetName
bindingWrite(targetName, name, value, exclusive, old) ==
  IF exclusive /\ targetName # name THEN 0
  ELSE IF targetName = name THEN value
  ELSE old

\* a forEach that stops after the first binding of the target
applyFirstBinding(obj, target, b, name, value, exclusive) ==
  LET mesh == target.bindings[1].mesh
      slot == target.bindings[1].index + 1
  IN IF ~obj[mesh].hasInfluences THEN obj
     ELSE [obj EXCEPT ![mesh].infl[slot] =
             bindingWrite(target.name, name, value, exclusive, @)]

\* target.bindings.forEach(({mesh, index}) => ...)
RECURSIVE applyBindings(_, _, _, _, _, _)
applyBindings(obj, target, b, name, value, exclusive) ==
  IF b > Len(target.bindings) THEN obj
  ELSE LET mesh == target.bindings[b].mesh
           slot == target.bindings[b].index + 1
           next == IF ~obj[mesh].hasInfluences THEN obj
                   ELSE [obj EXCEPT ![mesh].infl[slot] =
                           bindingWrite(target.name, name, value, exclusive, @)]
       IN applyBindings(next, target, b + 1, name, value, exclusive)

\* morphTargets.forEach(target => ...)
RECURSIVE applyTargets(_, _, _, _, _, _)
applyTargets(obj, targets, t, name, value, exclusive) ==
  IF t > Len(targets) THEN obj
  ELSE applyTargets(applyBindings(obj, targets[t], 1, name, value, exclusive),
                    targets, t + 1, name, value, exclusive)

TargetNames(targets) == { targets[t].name : t \in 1..Len(targets) }

\* the updater passed to setMorphValues by applyMorphValue
nextMorphValues(prev, targets, name, value, exclusive) ==
  IF exclusive
  THEN [k \in DOMAIN prev \cup TargetNames(targets) |->
          IF k \in TargetNames(targets) THEN (IF k = name THEN value ELSE 0) ELSE prev[k]]
  ELSE [k \in DOMAIN prev \cup {name} |-> IF k = name THEN value ELSE prev[k]]

\* the call log after one more call: the last two calls
logCall(log, call) == IF Len(log) < 2 THEN Append(log, call) ELSE <<log[2], call>>

Call(op, name, value) == [op |-> op, name |-> name, value |-> value]

\* applyMorphValue(name, value, exclusive)
applyMorphValue(name, value, exclusive) ==
  /\ object' = applyTargets(object, morphTargets, 1, name, value, exclusive)
  /\ morphValues' = nextMorphValues(morphValues, morphTargets, name, value, exclusive)
  /\ calls' = logCall(calls, Call(IF exclusive THEN "SetExclusive" ELSE "Set", name, value))
  /\ written' = written \cup (IF exclusive THEN TargetNames(morphTargets) ELSE {name})
  /\ UNCHANGED <<morphTargets, appVars, pickVars, recordVars, sideVars>>

\* the slot writes of resetMorphTargets: every binding of every target to 0
RECURSIVE resetBindings(_, _, _)
resetBindings(obj, target, b) ==
  IF b > Len(target.bindings) THEN obj
  ELSE LET mesh == target.bindings[b].mesh
           slot == target.bindings[b].index + 1
           next == IF ~obj[mesh].hasInfluences THEN obj
                   ELSE [obj EXCEPT ![mesh].infl[slot] = 0]
       IN resetBindings(next, target, b + 1)

\* a reset that stops after the first target
resetFirstTarget(obj, targets, t) ==
  IF Len(targets) = 0 THEN obj ELSE resetBindings(obj, targets[1], 1)

RECURSIVE resetTargets(_, _, _)
resetTargets(obj, targets, t) ==
  IF t > Len(targets) THEN obj
  ELSE resetTargets(resetBindings(obj, targets[t], 1), targets, t + 1)

\* resetMorphTargets()
resetMorphTargets ==
  /\ object' = resetTargets(object, morphTargets, 1)
  /\ morphValues' = [k \in DOMAIN morphValues \cup TargetNames(morphTargets) |->
                       IF k \in TargetNames(morphTargets) THEN 0 ELSE morphValues[k]]
  /\ calls' = logCall(calls, Call("ResetAll", "", 0))
  /\ written' = written \cup TargetNames(morphTargets)
  /\ UNCHANGED <<morphTargets, appVars, pickVars, recordVars, sideVars>>

\* ----------------------------------------------------- Statistics Collector
\* The triangle total is kept in thirds: adding count / 3 for every counted
\* mesh gives thirds / 3 with thirds the sum of the counts.  The fraction of
\* thirds / 3 is 0, 1/3 or 2/3, never within rounding error of 1/2, so
\* Math.round on the floating-point total gives the exact result below.
\* The bounding-box size is not modelled.

\* Math.round(thirds / 3): the nearest integer, halves upwards
MathRoundThirds(thirds) == (2 * thirds + 3) \div 6

\* a per-mesh rounding of the contribution, in thirds
roundedContribution(count) == 3 * MathRoundThirds(count)

\* triangles += count / 3, in thirds
triangleContribution(count) == count

\* the callback of object.traverse in getModelStats, from node i on
RECURSIVE statsFrom(_, _, _)
statsFrom(obj, i, acc) ==
  IF i > Len(obj) THEN acc
  ELSE IF ~obj[i].isMesh THEN statsFrom(obj, i + 1, acc)
  ELSE LET geometry == obj[i].geometry
           counted == geometry.present /\ geometry.hasPosition
       IN statsFrom(obj, i + 1,
            [thirds |->
               IF ~counted THEN acc.thirds
               ELSE IF geometry.hasIndex
                    THEN acc.thirds + triangleContribution(geometry.indexCount)
                    ELSE acc.thirds + triangleContribution(geometry.positionCount),
             vertices |->
               IF counted THEN acc.vertices + geometry.positionCount ELSE acc.vertices,
             meshes |-> acc.meshes + 1,
             materials |-> acc.materials + Len(obj[i].material)])

\* a collector that counts only the meshes carrying a non-zero morph weight
getModelStatsOfWeighted(obj) ==
  LET acc == statsFrom(obj, 1, [thirds |-> 0, vertices |-> 0, meshes |-> 0, materials |-> 0])
  IN [triangles |-> MathRoundThirds(acc.thirds), vertices |-> acc.vertices,
      meshes |-> Cardinality({ i \in DOMAIN obj :
                    obj[i].isMesh /\ \E j \in DOMAIN obj[i].infl : obj[i].infl[j] # 0 }),
      materials |-> acc.materials]

getModelStats(obj) ==
  LET acc == statsFrom(obj, 1, [thirds |-> 0, vertices |-> 0, meshes |-> 0, materials |-> 0])
  IN [triangles |-> MathRoundThirds(acc.thirds), vertices |-> acc.vertices,
      meshes |-> acc.meshes, materials |-> acc.materials]

\* a classifier whose boundary values stay in the lower tier
getPerformanceHintInclusive(triangles) ==
  IF triangles = 0 THEN "info"
  ELSE IF triangles <= 50000 THEN "good"
  ELSE IF triangles <= 200000 THEN "medium"
  ELSE IF triangles <= 500000 THEN "high"
  ELSE "extreme"

\* the level of getPerformanceHint(triangles, language)
getPerformanceHint(triangles) ==
  IF triangles = 0 THEN "info"
  ELSE IF triangles < 50000 THEN "good"
  ELSE IF triangles < 200000 THEN "medium"
  ELSE IF triangles < 500000 THEN "high"
  ELSE "extreme"

\* ------------------------------------------------ Custom Metadata Extractor
isRecord(value) == value.kind = "object"

\* a strip that keeps the gltfExtensions key
noStrip(value) == value

\* const { gltfExtensions, ...rest } = value; return rest
stripGltfExtensions(value) ==
  IF ~isRecord(value) THEN value ELSE JsObject(value.keys \ {"gltfExtensions"})

hasCustomValue(value) ==
  IF value.kind \in {"null", "undefined"} THEN FALSE
  ELSE IF value.kind = "array" THEN value.length > 0
  ELSE IF isRecord(value) THEN Cardinality(value.keys) > 0
  ELSE TRUE

\* a ?? b
Nullish(a, b) == IF a.kind \in {"null", "undefined"} THEN b ELSE a

Section(id, value) == [id |-> id, value |-> value]

\* the first traverse of collectGltfCustomSections, from node i on; node 1 is
\* gltf.scene, a node is named by its place in the traversal
RECURSIVE nodeEntriesFrom(_, _, _)
nodeEntriesFrom(scene, i, nodeEntries) ==
  IF i > Len(scene) THEN nodeEntries
  ELSE LET data == stripGltfExtensions(scene[i].userData) IN
    IF i = 1 \/ ~hasCustomValue(data) THEN nodeEntriesFrom(scene, i + 1, nodeEntries)
    ELSE nodeEntriesFrom(scene, i + 1, Append(nodeEntries, [name |-> i, data |-> data]))

\* a materials.forEach(...) that never consults seenMaterials
RECURSIVE materialEntriesUnseen(_, _, _)
materialEntriesUnseen(materials, j, acc) ==
  IF j > Len(materials) THEN acc
  ELSE LET data == stripGltfExtensions(materials[j].userData)
       IN IF ~hasCustomValue(data)
          THEN materialEntriesUnseen(materials, j + 1, acc)
          ELSE materialEntriesUnseen(materials, j + 1,
                 [acc EXCEPT !.materialEntries =
                    Append(@, [name |-> materials[j].uuid, data |-> data])])

\* materials.forEach(...) of one mesh, from material j on; acc holds
\* materialEntries and seenMaterials
RECURSIVE materialEntriesOf(_, _, _)
materialEntriesOf(materials, j, acc) ==
  IF j > Len(materials) THEN acc
  ELSE LET material == materials[j]
           data == stripGltfExtensions(material.userData)
       IN IF ~hasCustomValue(data) \/ material.uuid \in acc.seenMaterials
          THEN materialEntriesOf(materials, j + 1, acc)
          ELSE materialEntriesOf(materials, j + 1,
                 [materialEntries |->
                    Append(acc.materialEntries, [name |-> material.uuid, data |-> data]),
                  seenMaterials |-> acc.seenMaterials \cup {material.uuid}])

\* the second traverse, from node i on
RECURSIVE materialEntriesFrom(_, _, _)
materialEntriesFrom(scene, i, acc) ==
  IF i > Len(scene) THEN acc.materialEntries
  ELSE IF ~scene[i].isMesh THEN materialEntriesFrom(scene, i + 1, acc)
  ELSE materialEntriesFrom(scene, i + 1, materialEntriesOf(scene[i].material, 1, acc))

\* if (hasCustomValue(value)) sections.push({id, value})
pushIfCustom(id, value) == IF hasCustomValue(value) THEN <<Section(id, value)>> ELSE <<>>

\* if (entries.length) sections.push({id, value: entries})
pushIfAny(id, entries) == IF Len(entries) > 0 THEN <<Section(id, entries)>> ELSE <<>>

\* a collector that pushes the nodes section before the scene section
collectNodesBeforeScene(gltf) ==
  pushIfCustom("asset", Nullish(gltf.asset.extras, gltf.json.asset.extras))
    \o pushIfCustom("root", gltf.json.extras)
    \o pushIfAny("nodes", nodeEntriesFrom(gltf.scene, 1, <<>>))
    \o pushIfCustom("scene", stripGltfExtensions(gltf.scene[1].userData))
    \o pushIfAny("materials",
          materialEntriesFrom(gltf.scene, 1, [materialEntries |-> <<>>, seenMaterials |-> {}]))

collectGltfCustomSections(gltf) ==
  pushIfCustom("asset", Nullish(gltf.asset.extras, gltf.json.asset.extras))
    \o pushIfCustom("root", gltf.json.extras)
    \o pushIfCustom("scene", stripGltfExtensions(gltf.scene[1].userData))
    \o pushIfAny("nodes", nodeEntriesFrom(gltf.scene, 1, <<>>))
    \o pushIfAny("materials",
          materialEntriesFrom(gltf.scene, 1, [materialEntries |-> <<>>, seenMaterials |-> {}]))

\* the state after one successful load of a.GLB whose decoded scene is obj
\* and after the effect on [model] has run
LoadedState(obj) ==
  /\ model = 1
  /\ loading = FALSE
  /\ error = "none"
  /\ fitSignal = 1
  /\ disposed = {}
  /\ loads = [l \in LoadIds |->
       IF l = 1
       THEN [pc |-> "done", files |-> << <<"a", ".", "GLB">> >>,
             mainFile |-> <<"a", ".", "GLB">>, captured |-> 0, cache |-> {}]
       ELSE IdleLoad]
  /\ blobStore = {}
  /\ revokedUrls = {<<1, <<"a", ".", "GLB">>>>}
  /\ decodeCalls = 1
  /\ clears = 0
  /\ object = obj
  /\ morphTargets = collectMorphTargets(obj)
  /\ morphValues = initialValues(obj, collectMorphTargets(obj))
  /\ calls = <<>>
  /\ written = {}
  /\ decoded = Undefined
  /\ stats = getModelStats(obj)
  /\ customProperties = <<>>

InitMorph ==
  /\ \E obj \in Scenes : LoadedState(obj)
  /\ NoSide
  /\ inFiles = <<>>
  /\ picked = [done |-> FALSE, result |-> Undefined]

NextMorph ==
  \/ \E name \in MorphNames, value \in MorphValueSet, exclusive \in BOOLEAN :
       applyMorphValue(name, value, exclusive)
  \/ resetMorphTargets

SpecMorph == InitMorph /\ [][NextMorph]_vars

\* ------------------------------------------- the model record of one load
\* SpecRecord starts with load 1 awaiting its decoder and resolves it with a
\* concrete decoder result.
GltfFormats == {"glb", "gltf"}

\* extensions whose decoder resolves with a bare geometry
GeometryFormats == {"ply", "stl", "drc"}

\* new THREE.Mesh(geometry, material) with the synthesized material (the
\* numbers of the ply branch; stl and drc pass 0.05 and 0.55)
NewMesh(geometry) ==
  [isMesh |-> TRUE, hasInfluences |-> FALSE, dict |-> <<>>, infl |-> <<>>,
   geometry |-> geometry,
   material |-> <<MaterialWith("standard", JsObject({}), "0.1", "0.5", "front")>>,
   userData |-> JsObject({}), castShadow |-> FALSE, receiveShadow |-> FALSE]

\* a mesh of a decoded scene
SceneMesh(geometry, material, userData) ==
  [isMesh |-> TRUE, hasInfluences |-> FALSE, dict |-> <<>>, infl |-> <<>>,
   geometry |-> geometry, material |-> material, userData |-> userData,
   castShadow |-> FALSE, receiveShadow |-> FALSE]

\* a THREE.Points node of a decoded scene: it has a material and is no mesh
PointsNode(material) == [Group EXCEPT !.material = material]

\* a non-mesh node of a decoded scene
SceneNode(userData) == [Group EXCEPT !.userData = userData]

\* geometries a decoder can produce: no position attribute, non-indexed,
\* indexed, with totals on both sides of every tier boundary
GeometryPool ==
  { NoPosition, NonIndexed(1), NonIndexed(2), NonIndexed(3), NonIndexed(4),
    Indexed(4, 5), Indexed(4, 6),
    Indexed(50000, 149997), Indexed(50000, 150000),
    Indexed(200000, 599997), Indexed(200000, 600000),
    Indexed(500000, 1499997), Indexed(500000, 1500000) }

StatNodes ==
  { Group, SceneMesh(NoGeometry, <<Material("m0", JsObject({}))>>, JsObject({})),
    SceneMesh(Indexed(4, 6), <<>>, JsObject({})),
    SceneMesh(Indexed(4, 6),
              <<Material("m0", JsObject({})), Material("m1", JsObject({}))>>, JsObject({})) }
    \cup { SceneMesh(g, <<Material("m0", JsObject({}))>>, JsObject({})) : g \in GeometryPool }

StatScenes == UNION { [1..n -> StatNodes] : n \in 1..MaxMeshes }

\* values of asset.extras and of the document's extras
JsValues ==
  { JsUndefined, JsNull, JsArray(0), JsArray(2), JsObject({}), JsObject({"author"}),
    JsScalar("number", "0"), JsScalar("string", ""), JsScalar("boolean", "false") }

\* userData of a node or material after the decoder has assigned extras
UserDataBags ==
  { JsObject({}), JsObject({"gltfExtensions"}), JsObject({"tag"}),
    JsObject({"tag", "gltfExtensions"}) }

SectionScenes ==
  { << SceneNode(root), SceneMesh(Indexed(4, 6), <<Material("m0", mat)>>, node) >> :
      root \in UserDataBags, node \in UserDataBags, mat \in UserDataBags }

\* scenes in which one material object stands twice in the material list of
\* a mesh and is shared with a second mesh, next to a material of its own
SharedMaterialScenes ==
  { << SceneNode(JsObject({})),
       SceneMesh(Indexed(4, 6), <<Material("m0", shared), Material("m0", shared)>>, JsObject({})),
       SceneMesh(Indexed(4, 6), <<Material("m1", own), Material("m0", shared)>>, JsObject({})) >> :
      shared \in UserDataBags, own \in UserDataBags }

\* metalness and roughness as a decoder can leave them
FactorStates == {"absent", "undefined", "null", "0", "0.5"}

Sides == {"front", "back", "double"}

\* scenes whose materials differ in metalness, roughness and side: a group,
\* a points node and two meshes, the second with a material of its own next
\* to the material of the first
MaterialScenes ==
  { << Group,
       PointsNode(<<MaterialWith("p0", JsObject({}), "undefined", "null", "front")>>),
       SceneMesh(Indexed(4, 6), <<MaterialWith("m0", JsObject({}), mt, rg, sd)>>, JsObject({})),
       SceneMesh(Indexed(4, 6),
                 <<MaterialWith("m1", JsObject({}), "absent", "absent", "back"),
                   MaterialWith("m0", JsObject({}), mt, rg, sd)>>, JsObject({})) >> :
      mt \in FactorStates, rg \in FactorStates, sd \in Sides }

\* what a decoder resolves with: gltf.asset is the asset object of the
\* parsed document
Gltf(extension, scene, assetExtras, extras) ==
  [extension |-> extension, geometry |-> NoGeometry, scene |-> scene,
   asset |-> [extras |-> assetExtras],
   json |-> [asset |-> [extras |-> assetExtras], extras |-> extras]]

DecodedObject(extension, scene) == Gltf(extension, scene, JsUndefined, JsUndefined)

DecodedGeometry(extension, geometry) ==
  [DecodedObject(extension, <<>>) EXCEPT !.geometry = geometry]

DecoderResults ==
  { DecodedObject(e, scene) : e \in {"glb", "obj", "usdz"}, scene \in StatScenes }
    \cup { DecodedGeometry(e, g) : e \in GeometryFormats, g \in GeometryPool \ {NoPosition} }
    \cup { Gltf(e, scene, assetExtras, extras) :
              e \in GltfFormats, scene \in SectionScenes,
              assetExtras \in JsValues, extras \in JsValues }
    \cup { DecodedObject(e, scene) : e \in {"obj", "usd", "usdz"}, scene \in SectionScenes }
    \cup { DecodedObject(e, scene) : e \in GltfFormats, scene \in SharedMaterialScenes }
    \cup { DecodedObject(e, scene) : e \in {"gltf", "obj"}, scene \in MaterialScenes }

\* loadedObject of the decoder branch taken
loadedObject(d) ==
  IF d.extension \in GeometryFormats THEN <<NewMesh(d.geometry)>> ELSE d.scene

\* load 1 of files has started and awaits the decoder of mainFile
AwaitingDecoderOf(files, mainFile) ==
  LET viaUrl == getExtension(mainFile) \in UrlFormats
  IN /\ model = 0
     /\ loading = TRUE
     /\ error = "none"
     /\ fitSignal = 0
     /\ disposed = {}
     /\ loads = [l \in LoadIds |->
          IF l = 1
          THEN [pc |-> IF viaUrl THEN "decoding" ELSE "reading", files |-> files,
                mainFile |-> mainFile, captured |-> 0,
                cache |-> IF viaUrl THEN {mainFile} ELSE {}]
          ELSE IdleLoad]
     /\ blobStore = IF viaUrl THEN {<<1, mainFile>>} ELSE {}
     /\ revokedUrls = {}
     /\ decodeCalls = IF viaUrl THEN 1 ELSE 0
     /\ clears = 0

AwaitingDecoder(extension) ==
  AwaitingDecoderOf(<< <<"model", ".", extension>> >>, <<"model", ".", extension>>)

InitRecord ==
  /\ \E d \in DecoderResults : decoded = d /\ AwaitingDecoder(d.extension)
  /\ NoMorph
  /\ NoSide
  /\ stats = Undefined
  /\ customProperties = <<>>
  /\ inFiles = <<>>
  /\ picked = [done |-> FALSE, result |-> Undefined]

\* the decoder of load 1 resolved with decoded: the rest of the try block of
\* loadFiles (normalisation traverse, getModelStats, setModel) and the
\* effect on [model].
InstallModel ==
  /\ model = 0
  /\ resolveLoad(1)
  /\ LET normalized == traverseNormalize(loadedObject(decoded)) IN
       /\ object' = normalized
       /\ stats' = getModelStats(normalized)
       /\ morphTargets' = collectMorphTargets(normalized)
       /\ morphValues' = initialValues(normalized, collectMorphTargets(normalized))
  /\ customProperties' =
       IF decoded.extension \in GltfFormats THEN collectGltfCustomSections(decoded) ELSE <<>>
  /\ UNCHANGED <<calls, written, decoded, pickVars, sideVars>>

NextRecord == InstallModel

SpecRecord == InitRecord /\ [][NextRecord]_vars

\* ------------------------------------------- the URL cache of one load
\* SpecUrl follows the closure of load 1 (cache, fileMap, URL modifier) while
\* its decoder asks for sub-resources.  A blob URL is the number of the
\* URL.createObjectURL call that returned it.  Decoders request their
\* sub-resources before they resolve, so the modifier is not called after.
UrlFileSets ==
  { << <<"a", ".", "GLB">> >>,
    << <<"scene", ".", "gltf">>, <<"scene", ".", "bin">>, <<"tex", ".", "png">> >>,
    << <<"tex", ".", "png">>, <<"scene", ".", "gltf">>, <<"tex", ".", "png">> >>,
    << <<"my tex", ".", "png">>, <<"100%", ".", "png">>, <<"scene", ".", "gltf">> >>,
    << <<"scene", ".", "obj">>, <<"tex", ".", "png">> >>,
    << <<"s", ".", "usdz">>, <<"tex", ".", "png">> >> }

\* sub-resource URLs that a decoder can request
ModifierUrls ==
  RequestUrls \cup
  { <<"tex", ".", "png">>,
    <<"tex", ".", "png", "?", "p=a", "/", "b">>,
    <<"my%20tex", ".", "png">>,
    <<"100%", ".", "png">>,
    <<"textures", "/">>,
    <<"data:image/png;base64,AAAA">> }

\* decodeURIComponent throws URIError on a % that starts no escape
malformedEscape(u) == \E i \in 1..Len(u) : u[i] = "100%"

BlobUrl(id) == [kind |-> "blob", id |-> id, url |-> <<>>]

PlainUrl(url) == [kind |-> "url", id |-> 0, url |-> url]

Thrown == [kind |-> "throw", id |-> 0, url |-> <<>>]

NoResult == [kind |-> "none", id |-> 0, url |-> <<>>]

\* a cache lookup that never finds the name
cacheHasNever(cache, name) == FALSE

\* cache.has(file.name)
cacheHas(cache, name) == \E i \in 1..Len(cache) : cache[i].name = name

\* cache.get(file.name)
cacheGet(cache, name) == cache[CHOOSE i \in 1..Len(cache) : cache[i].name = name].url

\* getUrl(file) on the closure c: the closure afterwards
getUrl(c, name) ==
  IF cacheHas(c.cache, name) THEN c
  ELSE LET url == Len(c.created) + 1 IN
    [c EXCEPT !.cache = Append(@, [name |-> name, url |-> url]),
              !.created = Append(@, [name |-> name, url |-> url])]

\* revokeAll(): cache.forEach(url => URL.revokeObjectURL(url)); cache.clear()
revokeAll(c) ==
  [c EXCEPT !.revoked = @ \o [i \in 1..Len(c.cache) |-> c.cache[i].url],
            !.cache = <<>>]

\* the closure right after the decoder branch has issued its load call
newClosure(files) ==
  LET mainFile == pickMainFile(files)
      c == [files |-> files, mainFile |-> mainFile, cache |-> <<>>, created |-> <<>>,
            revoked |-> <<>>, last |-> NoResult, requests |-> 0, pc |-> "decoding"]
  IN IF getExtension(mainFile) \in UrlFormats THEN getUrl(c, mainFile) ELSE c

InitUrl ==
  /\ \E files \in UrlFileSets :
       /\ closure = newClosure(files)
       /\ AwaitingDecoderOf(files, pickMainFile(files))
  /\ probe = Undefined
  /\ NoMorph
  /\ NoRecord
  /\ inFiles = <<>>
  /\ picked = [done |-> FALSE, result |-> Undefined]

\* the callback of manager.setURLModifier, called with url
ModifyUrl(url) ==
  /\ closure.pc = "decoding"
  /\ closure.requests < MaxRequests
  /\ IF malformedEscape(Split(url, "?")[1])
     THEN /\ closure' = [closure EXCEPT !.last = Thrown, !.requests = @ + 1]
          /\ UNCHANGED <<loads, blobStore>>
     ELSE LET match == fileMapGet(closure.files, modifierFilename(url)) IN
       IF match = Undefined
       THEN /\ closure' = [closure EXCEPT !.last = PlainUrl(url), !.requests = @ + 1]
            /\ UNCHANGED <<loads, blobStore>>
       ELSE LET c == getUrl(closure, match) IN
            /\ closure' = [c EXCEPT !.last = BlobUrl(cacheGet(c.cache, match)),
                                     !.requests = @ + 1]
            /\ loads' = [loads EXCEPT ![1].cache = @ \cup {match}]
            /\ blobStore' = blobStore \cup {<<1, match>>}
  /\ UNCHANGED <<model, loading, error, fitSignal, disposed, revokedUrls,
                 decodeCalls, clears, pickVars, morphVars, recordVars, probe>>

\* the decoder resolved: revokeAll in the branches that made URLs, then the
\* rest of the try block
CloseResolved ==
  /\ closure.pc = "decoding"
  /\ closure' = [(IF getExtension(closure.mainFile) \in UrlFormats
                  THEN revokeAll(closure) ELSE closure) EXCEPT !.pc = "done"]
  /\ resolveLoad(1)
  /\ UNCHANGED <<pickVars, morphVars, recordVars, probe>>

\* the decoder rejected, or the URL modifier threw inside it: catch, finally
CloseRejected ==
  /\ closure.pc = "decoding"
  /\ closure' = [closure EXCEPT !.pc = "failed"]
  /\ rejectLoad(1)
  /\ UNCHANGED <<pickVars, morphVars, recordVars, probe>>

NextUrl ==
  \/ \E url \in ModifierUrls : ModifyUrl(url)
  \/ CloseResolved
  \/ CloseRejected

SpecUrl == InitUrl /\ [][NextUrl]_vars

\* ------------------------------------------------ PerformanceProbe (GPU)
\* SpecProbe follows the refs of one mounted PerformanceProbe.  A timer
\* query is the number of the createQuery call that returned it; glActive
\* holds the queries begun and not ended in the context; deleted logs every
\* deleteQuery call with the function that made it.  The probe record:
\* mounted, enabled (the prop), registered (the frame callbacks are
\* subscribed), timer (gpuTimer.current: "none" is null, else its kind),
\* pending (timer.pending), activeQuery (0 is null), gpuMs (0 is null, else
\* the query whose result was read).
TimerKinds == {"none", "webgl1", "webgl2"}

MountedProbe(enabled, kind) ==
  [mounted |-> TRUE, enabled |-> enabled, registered |-> enabled, timer |-> kind,
   pending |-> <<>>, activeQuery |-> 0, gpuMs |-> 0, created |-> 0,
   glActive |-> {}, deleted |-> <<>>]

Deletion(query, by) == [query |-> query, by |-> by]

\* a beginGpuQuery without the activeQuery.current guard
beginGpuQueryUnguarded(p, made) ==
  IF p.timer = "none" THEN p
  ELSE IF ~made THEN p
  ELSE [p EXCEPT !.created = @ + 1, !.glActive = @ \cup {p.created + 1},
                 !.activeQuery = p.created + 1]

\* beginGpuQuery(); made: createQuery returned a query
beginGpuQuery(p, made) ==
  IF p.timer = "none" \/ p.activeQuery # 0 THEN p
  ELSE IF ~made THEN p
  ELSE [p EXCEPT !.created = @ + 1, !.glActive = @ \cup {p.created + 1},
                 !.activeQuery = p.created + 1]

\* endGpuQuery()
endGpuQuery(p) ==
  IF p.timer = "none" \/ p.activeQuery = 0 THEN p
  ELSE [p EXCEPT !.glActive = {}, !.pending = Append(@, p.activeQuery), !.activeQuery = 0]

\* resolveGpuQueries(); available: the results available, one flag per
\* pending query; disjoint: GPU_DISJOINT_EXT
RECURSIVE resolveGpuQueries(_, _, _)
resolveGpuQueries(p, available, disjoint) ==
  IF p.timer = "none" \/ Len(p.pending) = 0 THEN p
  ELSE IF ~available[1] THEN p
  ELSE resolveGpuQueries(
         [p EXCEPT !.pending = Tail(@),
                   !.gpuMs = IF disjoint THEN @ ELSE p.pending[1],
                   !.deleted = Append(@, Deletion(p.pending[1], "resolve"))],
         Tail(available), disjoint)

\* clearGpuQueries()
clearGpuQueries(p) ==
  LET ended == IF p.timer # "none" /\ p.activeQuery # 0
               THEN [p EXCEPT !.glActive = {},
                              !.deleted = Append(@, Deletion(p.activeQuery, "clear"))]
               ELSE p
      cleared == [ended EXCEPT !.activeQuery = 0]
  IN IF cleared.timer = "none" THEN cleared
     ELSE [cleared EXCEPT
             !.deleted = @ \o [i \in 1..Len(cleared.pending) |->
                                  Deletion(cleared.pending[i], "clear")],
             !.pending = <<>>]

\* the cleanup of the effect on [gl]
cleanupGl(p) == [clearGpuQueries(p) EXCEPT !.timer = "none"]

\* the cleanup of the effect on [enabled]
cleanupEnabled(p) == [clearGpuQueries(p) EXCEPT !.registered = FALSE]

InitProbe ==
  /\ \E enabled \in BOOLEAN, kind \in TimerKinds : probe = MountedProbe(enabled, kind)
  /\ closure = Undefined
  /\ InitApp
  /\ NoMorph
  /\ NoRecord
  /\ inFiles = <<>>
  /\ picked = [done |-> FALSE, result |-> Undefined]

\* the enabled prop changes: cleanup of the previous effect run, then the
\* effect on [enabled] again
SetEnabled(enabled) ==
  /\ probe.mounted
  /\ enabled # probe.enabled
  /\ probe' = [(IF probe.registered THEN cleanupEnabled(probe) ELSE probe)
                 EXCEPT !.enabled = enabled, !.registered = enabled]
  /\ UNCHANGED <<appVars, pickVars, morphVars, recordVars, closure>>

\* the renderer changes: cleanup of the effect on [gl], then the effect again
ChangeGl(kind) ==
  /\ probe.mounted
  /\ probe' = [cleanupGl(probe) EXCEPT !.timer = kind, !.gpuMs = 0]
  /\ UNCHANGED <<appVars, pickVars, morphVars, recordVars, closure>>

\* the callback given to addEffect
BeforeFrame(made) ==
  /\ probe.registered
  /\ probe.created < MaxQueries
  /\ probe' = beginGpuQuery(probe, made)
  /\ UNCHANGED <<appVars, pickVars, morphVars, recordVars, closure>>

\* the callback given to addAfterEffect
AfterFrame(available, disjoint) ==
  /\ probe.registered
  /\ probe' = resolveGpuQueries(endGpuQuery(probe), available, disjoint)
  /\ UNCHANGED <<appVars, pickVars, morphVars, recordVars, closure>>

\* unmount: the cleanups in the order of the effects
Unmount ==
  /\ probe.mounted
  /\ probe' = [(IF probe.registered
                 THEN cleanupEnabled(cleanupGl(probe)) ELSE cleanupGl(probe))
                 EXCEPT !.mounted = FALSE]
  /\ UNCHANGED <<appVars, pickVars, morphVars, recordVars, closure>>

NextProbe ==
  \/ \E enabled \in BOOLEAN : SetEnabled(enabled)
  \/ \E kind \in TimerKinds : ChangeGl(kind)
  \/ \E made \in BOOLEAN : BeforeFrame(made)
  \/ \E available \in [1..MaxQueries -> BOOLEAN], disjoint \in BOOLEAN :
       AfterFrame(available, disjoint)
  \/ Unmount

SpecProbe == InitProbe /\ [][NextProbe]_vars

\* const performanceHint = useMemo(() => getPerformanceHint(model?.stats.triangles ?? 0))
performanceHint == getPerformanceHint(IF model # 0 THEN stats.triangles ELSE 0)

\* =================================================================== claims
\* the extension of a name, read off the name directly: the lower-cased last
\* token when the name holds a dot and does not end in one
NameExt(n) ==
  IF (\E i \in 1..Len(n) : n[i] = ".") /\ n[Len(n)] # "."
  THEN toLowerCase(n[Len(n)]) ELSE ""

SupportedExts == {"drc", "glb", "gltf", "obj", "ply", "stl", "usd", "usdz"}

SupportedIn(fs) == { i \in 1..Len(fs) : NameExt(fs[i]) \in SupportedExts }

\* the priority order as the interface documents it
PriorityOrder == <<"gltf", "glb", "usdz", "usd", "drc", "obj", "ply", "stl">>

PriorityRank(e) == CHOOSE i \in 1..Len(PriorityOrder) : PriorityOrder[i] = e

\* C6: for a file set with exactly one supported file (and any number of
\* unsupported ones) pickMainFile returns that file, wherever it stands.
C6_SoleSupportedPicked ==
  (picked.done /\ Cardinality(SupportedIn(inFiles)) = 1)
    => \A i \in SupportedIn(inFiles) : picked.result = inFiles[i]

\* a set of three files whose only supported file stands last
C6_Witness ==
  /\ picked.done
  /\ Len(inFiles) = 3
  /\ SupportedIn(inFiles) = {3}
  /\ picked.result = inFiles[3]

\* C7: for a file set with at least one supported file, the extension of the
\* picked file is the earliest of the present extensions in the order
\* gltf, glb, usdz, usd, drc, obj, ply, stl.
C7_PriorityOrderRespected ==
  (picked.done /\ SupportedIn(inFiles) # {})
    => /\ picked.result # Undefined
       /\ \E i \in SupportedIn(inFiles) : picked.result = inFiles[i]
       /\ \A i \in SupportedIn(inFiles) :
            PriorityRank(NameExt(picked.result)) <= PriorityRank(NameExt(inFiles[i]))

\* {scene.obj, scene.gltf} in this order yields scene.gltf
C7_Witness ==
  /\ picked.done
  /\ inFiles = << <<"scene", ".", "obj">>, <<"scene", ".", "gltf">> >>
  /\ picked.result = <<"scene", ".", "gltf">>


\* ---------------------------------------------------------- load lifecycle
Settled(l) == loads[l].pc \in {"done", "failed"}

Started(l) == InFlight(l) \/ Settled(l)

\* C1: once a load has settled, by success or by failure, no object URL that
\* it created is still unrevoked.
C1_UrlsRevokedWhenSettled ==
  \A l \in LoadIds : Settled(l) => ~\E u \in blobStore : u[1] = l

\* C2: a model that was installed by a completed load and is no longer the
\* active one has been disposed.
C2_ReplacedModelDisposed ==
  \A l \in LoadIds : (loads[l].pc = "done" /\ model # l) => l \in disposed

C4_NoActiveModelAfterFailure ==
  \A l \in LoadIds :
    (loads[l].pc = "failed" /\ loads[l].captured # 0) => model # loads[l].captured

\* selection fails for every file set of the pool without a supported file
C5_NoMainFile ==
  \A fs \in FileSets : SupportedIn(fs) = {} => pickMainFile(fs) = Undefined

\* C5: a load of a non-empty file set without a supported extension reports
\* the unsupported-format error, issues no decode, disposes nothing, leaves
\* the loading flag and the active model as they were and starts no load.
C5_UnsupportedSetOnlyReports ==
  [][/\ C5_NoMainFile
     /\ \A files \in UnsupportedInputs :
       (Len(files) > 0 /\ SupportedIn(files) = {} /\ HandleFiles(files))
         => /\ error' = "errorUnsupported"
            /\ decodeCalls' = decodeCalls
            /\ disposed' = disposed
            /\ loading' = loading
            /\ model' = model
            /\ loads' = loads
            /\ blobStore' = blobStore
            /\ revokedUrls' = revokedUrls]_vars

\* the error is reported while a model stays active and another load is pending
C5_Witness ==
  /\ error = "errorUnsupported"
  /\ model = 1
  /\ 1 \notin disposed
  /\ decodeCalls = 1

\* C8: a load started while another is pending is in flight at once and
\* leaves the pending one untouched; every successful completion installs
\* its model whatever else is pending or done, and nothing but a completion
\* installs a model: the last load to complete is the active one.
C8_LastCompletedWins ==
  [][/\ \A l \in LoadIds :
          (InFlight(l) /\ loads'[l].pc = "done") => model' = l
     /\ (model' # model /\ model' # 0)
          => (InFlight(model') /\ loads'[model'].pc = "done")
     /\ \A files \in SupportedInputs, l \in LoadIds :
          ((\E k \in LoadIds : InFlight(k)) /\ FreeLoad(l) /\ HandleFiles(files))
            => /\ loads'[l].pc \in {"decoding", "reading"}
               /\ \A k \in LoadIds \ {l} : loads'[k] = loads[k]
     /\ \A l \in LoadIds : InFlight(l) => ENABLED DecodeResolve(l)]_vars

\* both loads were pending together; the first started completed last and is active
C8_Witness ==
  /\ loads[1].pc = "done"
  /\ loads[2].pc = "done"
  /\ loads[2].captured = 0
  /\ clears = 0
  /\ model = 1

\* C9: a clear issued while a load is in flight disposes the active model
\* and sets the model to null, leaves every load record and object URL as it
\* was, and the in-flight load can still complete and then installs its model.
C9_ClearLeavesInFlightLoad ==
  [][/\ (clears' # clears /\ \E l \in LoadIds : InFlight(l))
          => /\ disposed' = disposed \cup ({model} \ {0})
             /\ model' = 0
             /\ loads' = loads
             /\ blobStore' = blobStore
     /\ \A l \in LoadIds : (clears > 0 /\ InFlight(l)) => ENABLED DecodeResolve(l)
     /\ \A l \in LoadIds :
          (clears > 0 /\ InFlight(l) /\ DecodeResolve(l)) => model' = l]_vars

\* load 2 started over model 1, the model was cleared while load 2 was in
\* flight, and load 2 then completed
C9_Witness ==
  /\ loads[2].pc = "done"
  /\ loads[2].captured = 1
  /\ clears = 1
  /\ 1 \in disposed
  /\ model = 2


\* ------------------------------------------------------------ morph targets
\* the influence slots of a morph name, read off the scene graph: every
\* (mesh, index) whose mesh has influences and lists the name at that index
SlotsOf(obj, name) ==
  UNION { { <<i, obj[i].dict[j].index + 1>> :
              j \in { j \in DOMAIN obj[i].dict : obj[i].dict[j].name = name } } :
          i \in { i \in DOMAIN obj : obj[i].isMesh /\ obj[i].hasInfluences } }

\* C10: Set(name, value), the non-exclusive applyMorphValue, writes value
\* into every influence slot bound to name, leaves the slots of every other
\* name as they were, and changes the displayed value of no other name.
C10_SetTouchesOnlyItsName ==
  [][\A name \in MorphNames, value \in MorphValueSet :
       applyMorphValue(name, value, FALSE)
         => /\ \A s \in SlotsOf(object, name) : object'[s[1]].infl[s[2]] = value
            /\ \A other \in MorphNames \ {name} :
                 \A s \in SlotsOf(object, other) :
                   object'[s[1]].infl[s[2]] = object[s[1]].infl[s[2]]
            /\ DOMAIN morphValues' \subseteq DOMAIN morphValues \cup {name}
            /\ \A other \in DOMAIN morphValues \ {name} :
                 /\ other \in DOMAIN morphValues'
                 /\ morphValues'[other] = morphValues[other]]_vars

\* both bindings of Smile hold 0.4 while both bindings of Blink still hold 1
C10_Witness ==
  /\ Len(object) = 3
  /\ SlotsOf(object, "Smile") = {<<2, 1>>, <<3, 3>>}
  /\ SlotsOf(object, "Blink") = {<<2, 2>>, <<3, 2>>}
  /\ \A s \in SlotsOf(object, "Smile") : object[s[1]].infl[s[2]] = 4
  /\ \A s \in SlotsOf(object, "Blink") : object[s[1]].infl[s[2]] = 10
  /\ morphValues["Smile"] = 4
  /\ morphValues["Blink"] = 10

\* the last call logged
LastCall == calls[Len(calls)]

\* C11: SetExclusive(name, value), the exclusive applyMorphValue, writes
\* value into every influence slot bound to name and 0 into every slot bound
\* to any other name, so that afterwards a non-zero influence is found only
\* in slots of name.
C11_SetExclusiveZeroesOthers ==
  [][\A name \in MorphNames, value \in MorphValueSet :
       applyMorphValue(name, value, TRUE)
         => /\ \A s \in SlotsOf(object, name) : object'[s[1]].infl[s[2]] = value
            /\ \A other \in MorphNames \ {name} :
                 \A s \in SlotsOf(object, other) : object'[s[1]].infl[s[2]] = 0
            /\ \A i \in DOMAIN object' : \A j \in DOMAIN object'[i].infl :
                 object'[i].infl[j] # 0 => <<i, j>> \in SlotsOf(object, name)]_vars

\* Blink was set to 1 on both meshes, then SetExclusive("Smile", 0.4) left
\* 0.4 in both Smile slots and 0 in every Blink and Jaw slot
C11_Witness ==
  /\ Len(calls) = 2
  /\ calls[1] = Call("Set", "Blink", 10)
  /\ calls[2] = Call("SetExclusive", "Smile", 4)
  /\ SlotsOf(object, "Smile") = {<<2, 1>>, <<3, 3>>}
  /\ SlotsOf(object, "Blink") = {<<2, 2>>, <<3, 2>>}
  /\ \A s \in SlotsOf(object, "Smile") : object[s[1]].infl[s[2]] = 4
  /\ \A s \in SlotsOf(object, "Blink") \cup SlotsOf(object, "Jaw") :
       object[s[1]].infl[s[2]] = 0

\* C12: for distinct discovered names A and B, SetExclusive(A, 1) followed
\* by Set(B, 0.4) leaves every slot of A at 1, every slot of B at 0.4 and
\* every slot of every other discovered name at 0.
C12_ExclusiveThenSet ==
  [][\A A \in MorphNames, B \in MorphNames :
       ( /\ A # B
         /\ SlotsOf(object, A) # {}
         /\ SlotsOf(object, B) # {}
         /\ calls # <<>>
         /\ LastCall = Call("SetExclusive", A, 10)
         /\ applyMorphValue(B, 4, FALSE) )
         => /\ \A s \in SlotsOf(object, A) : object'[s[1]].infl[s[2]] = 10
            /\ \A s \in SlotsOf(object, B) : object'[s[1]].infl[s[2]] = 4
            /\ \A other \in MorphNames \ {A, B} :
                 \A s \in SlotsOf(object, other) : object'[s[1]].infl[s[2]] = 0]_vars

\* on the graph loaded with Jaw at 1, SetExclusive("Smile", 1) and then
\* Set("Blink", 0.4) were called: Smile is 1 and Blink 0.4 on both meshes, Jaw 0
C12_Witness ==
  /\ calls = <<Call("SetExclusive", "Smile", 10), Call("Set", "Blink", 4)>>
  /\ SlotsOf(object, "Smile") = {<<2, 1>>, <<3, 3>>}
  /\ SlotsOf(object, "Blink") = {<<2, 2>>, <<3, 2>>}
  /\ SlotsOf(object, "Jaw") = {<<3, 1>>}
  /\ \A s \in SlotsOf(object, "Smile") : object[s[1]].infl[s[2]] = 10
  /\ \A s \in SlotsOf(object, "Blink") : object[s[1]].infl[s[2]] = 4
  /\ \A s \in SlotsOf(object, "Jaw") : object[s[1]].infl[s[2]] = 0

\* the morph names found in the scene graph
DiscoveredNames(obj) == { name \in MorphNames : SlotsOf(obj, name) # {} }

\* C13: ResetAll(), resetMorphTargets, reached through any sequence of Set and
\* SetExclusive calls, leaves 0 in every influence slot of every discovered
\* morph name and shows 0 as the value of every discovered name.
C13_ResetAllZeroes ==
  [][resetMorphTargets
       => \A name \in DiscoveredNames(object) :
            /\ \A s \in SlotsOf(object, name) : object'[s[1]].infl[s[2]] = 0
            /\ name \in DOMAIN morphValues'
            /\ morphValues'[name] = 0]_vars

\* on the graph loaded with Smile at 0.4 on its first mesh, Blink was set to
\* 1 and ResetAll then left every slot and every displayed value at 0
C13_Witness ==
  /\ calls = <<Call("Set", "Blink", 10), Call("ResetAll", "", 0)>>
  /\ DiscoveredNames(object) = {"Smile", "Blink"}
  /\ SlotsOf(object, "Smile") = {<<1, 1>>, <<3, 1>>}
  /\ \A name \in DiscoveredNames(object) :
       /\ morphValues[name] = 0
       /\ \A s \in SlotsOf(object, name) : object[s[1]].infl[s[2]] = 0

\* C14: the binding table has exactly one entry per morph name found in the
\* scene graph; the bindings of an entry are, in traversal order and without
\* repetition, the (mesh, index) pairs of the meshes whose dictionary holds
\* the name; and after Set(name, v) every binding of the name holds v, so
\* that "Smile" at index 0 of one mesh and index 2 of another is one entry
\* with two bindings, both written.
C14_OneEntryPerName ==
  /\ \A t \in DOMAIN morphTargets : \A u \in DOMAIN morphTargets :
       morphTargets[t].name = morphTargets[u].name => t = u
  /\ { morphTargets[t].name : t \in DOMAIN morphTargets } = DiscoveredNames(object)
  /\ \A t \in DOMAIN morphTargets :
       LET bindings == morphTargets[t].bindings IN
         /\ { <<bindings[b].mesh, bindings[b].index + 1>> : b \in DOMAIN bindings }
              = SlotsOf(object, morphTargets[t].name)
         /\ \A b \in DOMAIN bindings : \A c \in DOMAIN bindings :
              b < c => bindings[b].mesh < bindings[c].mesh
         /\ (calls # <<>> /\ LastCall.op = "Set" /\ LastCall.name = morphTargets[t].name)
              => \A b \in DOMAIN bindings :
                   object[bindings[b].mesh].infl[bindings[b].index + 1] = LastCall.value

\* Smile is one entry bound to index 0 of the first mesh and index 2 of the
\* second, and Set("Smile", 0.4) has written both
C14_Witness ==
  /\ \E t \in DOMAIN morphTargets :
       /\ morphTargets[t].name = "Smile"
       /\ morphTargets[t].bindings = <<[mesh |-> 2, index |-> 0], [mesh |-> 3, index |-> 2]>>
  /\ calls # <<>>
  /\ LastCall = Call("Set", "Smile", 4)
  /\ object[2].infl[1] = 4
  /\ object[3].infl[3] = 4


\* --------------------------------------------------------------- statistics
\* C15: a point-only PLY file (P >= 1 vertices, no faces, no index buffer)
\* loads as a model with triangle count 0 and the hint tier info.
C15_PointOnlyPlyHasNoTriangles ==
  ( /\ model # 0
    /\ decoded.extension = "ply"
    /\ ~decoded.geometry.hasIndex
    /\ decoded.geometry.positionCount >= 1 )
    => /\ stats.triangles = 0
       /\ performanceHint = "info"

\* what a node adds to three times the triangle total: the index count of an
\* indexed mesh, the position count of a non-indexed one, nothing otherwise
CountedThirds(node) ==
  IF node.isMesh /\ node.geometry.present /\ node.geometry.hasPosition
  THEN (IF node.geometry.hasIndex THEN node.geometry.indexCount
        ELSE node.geometry.positionCount)
  ELSE 0

RECURSIVE SumThirds(_, _)
SumThirds(obj, n) == IF n = 0 THEN 0 ELSE SumThirds(obj, n - 1) + CountedThirds(obj[n])

\* C16: the triangle count is the nearest integer to a third of the sum, over
\* the meshes with a position attribute, of the index count (indexed) or the
\* position count (non-indexed), rounded once on the total; a single mesh
\* whose count is a multiple of 3 reports exactly a third of it.
C16_TrianglesRoundedOnce ==
  model # 0
    => LET total == SumThirds(object, Len(object)) IN
         /\ 6 * stats.triangles - 3 <= 2 * total
         /\ 2 * total < 6 * stats.triangles + 3
         /\ (Len(object) = 1 /\ total % 3 = 0) => 3 * stats.triangles = total

\* two non-indexed meshes of 2 positions each report 1 triangle (4/3
\* rounded), where rounding each 2/3 first would give 2
C16_Witness ==
  /\ model # 0
  /\ Len(object) = 2
  /\ object[1].isMesh /\ object[1].geometry = NonIndexed(2)
  /\ object[2].isMesh /\ object[2].geometry = NonIndexed(2)
  /\ stats.triangles = 1

\* C17: the hint tier is info for 0 triangles, good for 1..49,999, medium
\* for 50,000..199,999, high for 200,000..499,999 and extreme from 500,000
\* on, so that each boundary value belongs to the higher tier.
C17_TierOfTriangles ==
  model # 0
    => LET t == stats.triangles IN
         /\ t >= 0
         /\ (t = 0) <=> (performanceHint = "info")
         /\ (1 <= t /\ t <= 49999) <=> (performanceHint = "good")
         /\ (50000 <= t /\ t <= 199999) <=> (performanceHint = "medium")
         /\ (200000 <= t /\ t <= 499999) <=> (performanceHint = "high")
         /\ (500000 <= t) <=> (performanceHint = "extreme")

\* a model of exactly 50,000 triangles is in the medium tier
C17_Witness ==
  /\ model # 0
  /\ stats.triangles = 50000
  /\ performanceHint = "medium"

\* C18: the statistics depend on the scene graph only through what Set,
\* SetExclusive and ResetAll leave alone: on every such step the statistics
\* stored in the model record stay as they are, and they are what
\* getModelStats yields on the graph before and after the step.
C18_StatsUnchangedByMorphs ==
  [][/\ stats = getModelStats(object)
     /\ stats' = stats
     /\ getModelStats(object') = stats']_vars

\* two morph calls have been made, weights are non-zero, and the record still
\* holds the statistics of its two meshes of 4 positions each
C18_Witness ==
  /\ Len(calls) = 2
  /\ \E i \in DOMAIN object : \E j \in DOMAIN object[i].infl : object[i].infl[j] = 4
  /\ stats = [triangles |-> 3, vertices |-> 8, meshes |-> 2, materials |-> 2]
  /\ stats = getModelStats(object)


\* ---------------------------------------------------------- custom sections
\* non-empty as the interface words it: not null or undefined, an array of
\* length > 0, an object with at least one key, any scalar or string
NonEmpty(value) ==
  /\ value.kind \notin {"null", "undefined"}
  /\ value.kind = "array" => value.length > 0
  /\ value.kind = "object" => value.keys # {}

\* a custom-data bag holds something besides the cross-reference key
HasCustomData(userData) == userData.keys \ {"gltfExtensions"} # {}

\* whether the payload of a section kind is non-empty in a decoded document
PayloadNonEmpty(gltf, id) ==
  CASE id = "asset" -> NonEmpty(gltf.json.asset.extras)
    [] id = "root" -> NonEmpty(gltf.json.extras)
    [] id = "scene" -> HasCustomData(gltf.scene[1].userData)
    [] id = "nodes" -> \E i \in 2..Len(gltf.scene) : HasCustomData(gltf.scene[i].userData)
    [] id = "materials" ->
         \E i \in DOMAIN gltf.scene :
           /\ gltf.scene[i].isMesh
           /\ \E j \in DOMAIN gltf.scene[i].material :
                HasCustomData(gltf.scene[i].material[j].userData)

SectionKinds == <<"asset", "root", "scene", "nodes", "materials">>

SectionIds == { customProperties[i].id : i \in DOMAIN customProperties }

\* C19: a model loaded from a format other than glb / gltf carries no
\* custom-property section; for glb / gltf each of the five section kinds is
\* present exactly when its payload is non-empty.
C19_SectionsIffNonEmpty ==
  model # 0
    => /\ decoded.extension \notin {"glb", "gltf"} => customProperties = <<>>
       /\ decoded.extension \in {"glb", "gltf"}
            => \A k \in DOMAIN SectionKinds :
                 (SectionKinds[k] \in SectionIds) <=> PayloadNonEmpty(decoded, SectionKinds[k])

\* a glb whose asset extras is the number 0, whose document extras is an
\* empty array and whose scene bag holds only the cross-reference key, with
\* one tagged node: the asset and nodes sections and no other
C19_Witness ==
  /\ model # 0
  /\ decoded.extension = "glb"
  /\ decoded.json.asset.extras = JsScalar("number", "0")
  /\ decoded.json.extras = JsArray(0)
  /\ decoded.scene[1].userData = JsObject({"gltfExtensions"})
  /\ Len(customProperties) = 2
  /\ customProperties[1].id = "asset"
  /\ customProperties[2].id = "nodes"

SectionRank(id) == CHOOSE k \in DOMAIN SectionKinds : SectionKinds[k] = id

\* C20: the sections stand in the order asset, root, scene, nodes,
\* materials, whichever of them are present, and no kind stands twice.
C20_SectionsInFixedOrder ==
  /\ \A i \in DOMAIN customProperties :
       \E k \in DOMAIN SectionKinds : customProperties[i].id = SectionKinds[k]
  /\ \A i \in DOMAIN customProperties : \A j \in DOMAIN customProperties :
       i < j => SectionRank(customProperties[i].id) < SectionRank(customProperties[j].id)

\* all five sections present, in order
C20_Witness ==
  /\ Len(customProperties) = 5
  /\ \A k \in DOMAIN SectionKinds : customProperties[k].id = SectionKinds[k]

\* the entries of the materials section, none when the section is absent
MaterialEntries ==
  IF "materials" \in SectionIds
  THEN customProperties[CHOOSE i \in DOMAIN customProperties :
                          customProperties[i].id = "materials"].value
  ELSE <<>>

\* the materials of the meshes of a scene that carry custom data
MaterialsWithData(scene) ==
  UNION { { scene[i].material[j].uuid :
              j \in { j \in DOMAIN scene[i].material :
                        HasCustomData(scene[i].material[j].userData) } } :
          i \in { i \in DOMAIN scene : scene[i].isMesh } }

\* C21: in the materials section a material with a non-empty custom-data bag
\* has exactly one entry, however many meshes share it and however often it
\* stands in a material list, and a material with an empty bag has none.
C21_MaterialsDeduplicated ==
  (model # 0 /\ decoded.extension \in {"glb", "gltf"})
    => /\ \A u \in MaterialsWithData(decoded.scene) :
            Cardinality({ k \in DOMAIN MaterialEntries : MaterialEntries[k].name = u }) = 1
       /\ \A k \in DOMAIN MaterialEntries :
            MaterialEntries[k].name \in MaterialsWithData(decoded.scene)

\* material m0, twice on the first mesh and once on the second, has one
\* entry; m1, whose bag holds only the cross-reference key, has none
C21_Witness ==
  /\ model # 0
  /\ decoded.extension = "glb"
  /\ Len(decoded.scene) = 3
  /\ decoded.scene[2].material = <<Material("m0", JsObject({"tag"})), Material("m0", JsObject({"tag"}))>>
  /\ decoded.scene[3].material =
       <<Material("m1", JsObject({"gltfExtensions"})), Material("m0", JsObject({"tag"}))>>
  /\ Len(MaterialEntries) = 1
  /\ MaterialEntries[1].name = "m0"


\* ------------------------------------------------------------ the URL cache
\* C22: within one load a blob URL is created at most once per file name and
\* a created URL is revoked at most once; once revokeAll has run, on the
\* resolve of a decoder branch that made URLs, the cache holds no binding and
\* every created URL has been revoked.
C22_UrlsOncePerName ==
  /\ \A i \in DOMAIN closure.created : \A j \in DOMAIN closure.created :
       closure.created[i].name = closure.created[j].name => i = j
  /\ \A i \in DOMAIN closure.revoked : \A j \in DOMAIN closure.revoked :
       closure.revoked[i] = closure.revoked[j] => i = j
  /\ \A i \in DOMAIN closure.revoked :
       \E j \in DOMAIN closure.created : closure.created[j].url = closure.revoked[i]
  /\ (closure.pc = "done" /\ getExtension(closure.mainFile) \in UrlFormats)
       => /\ closure.cache = <<>>
          /\ \A j \in DOMAIN closure.created :
               \E i \in DOMAIN closure.revoked : closure.revoked[i] = closure.created[j].url

\* scene.gltf, scene.bin and tex.png each got one URL although three
\* requests were made, one of them a repetition, and all three URLs were
\* revoked when the decoder resolved
C22_Witness ==
  /\ closure.pc = "done"
  /\ closure.requests = 3
  /\ Len(closure.created) = 3
  /\ closure.revoked = <<1, 2, 3>>
  /\ closure.cache = <<>>

\* the file name a requested URL stands for: the tokens before the first "?",
\* percent-decoded, after the last "/"
ExpectedName(url) ==
  LET marks == { i \in 1..Len(url) : url[i] = "?" }
      stop == IF marks = {} THEN Len(url) + 1
              ELSE CHOOSE i \in marks : \A k \in marks : i <= k
      slashes == { i \in 1..(stop - 1) : url[i] = "/" }
      start == IF slashes = {} THEN 1
               ELSE 1 + CHOOSE i \in slashes : \A k \in slashes : k <= i
  IN [i \in 1..(stop - start) |-> decodeToken(url[start + i - 1])]

\* C23: the URL modifier drops the query string, takes the trailing path
\* segment as a file name and returns the load's blob URL of the file of that
\* name when the file set holds one; for every other URL it returns the URL
\* unchanged and creates no binding.
C23_ModifierMapsEveryUrl ==
  [][\A url \in ModifierUrls :
       ModifyUrl(url)
         => IF \E i \in DOMAIN closure.files : closure.files[i] = ExpectedName(url)
            THEN /\ closure'.last.kind = "blob"
                 /\ \E i \in DOMAIN closure'.cache :
                      /\ closure'.cache[i].name = ExpectedName(url)
                      /\ closure'.cache[i].url = closure'.last.id
            ELSE /\ closure'.last = PlainUrl(url)
                 /\ closure'.cache = closure.cache
                 /\ closure'.created = closure.created]_vars

\* --------------------------------------------------------------- dispatch
\* C24: every main file that pickMainFile returns has an extension for which
\* loadFiles has a decoder branch, so the final else of the dispatch
\* (throw new Error("unsupported")) is taken for no file set.
C24_PickedFileHasDecoder ==
  (picked.done /\ picked.result # Undefined)
    => getExtension(picked.result) \in UrlFormats \cup BufferFormats

\* a usd file picked from a set that also holds a name ending in a dot and an
\* unsupported file
C24_Witness ==
  /\ picked.done
  /\ Len(inFiles) = 3
  /\ picked.result = <<"s", ".", "usd">>
  /\ \E i \in 1..3 : inFiles[i] = <<"notes", ".">>
  /\ \E i \in 1..3 : inFiles[i] = <<"tex", ".", "png">>

\* ---------------------------------------------------------- normalisation
\* C25: the normalisation pass is idempotent and touches only mesh nodes: in
\* the installed graph every mesh has both shadow flags set, and each of its
\* materials is double-sided with metalness and roughness defaulted to 0.1
\* and 0.6 only where they were undefined or null; a second pass changes
\* nothing, and every non-mesh node is as the decoder left it.
C25_NormalizationIdempotent ==
  model = 1 =>
    /\ traverseNormalize(object) = object
    /\ \A i \in DOMAIN object :
         LET before == loadedObject(decoded)[i] IN
           IF before.isMesh
           THEN /\ object[i].castShadow /\ object[i].receiveShadow
                /\ DOMAIN object[i].material = DOMAIN before.material
                /\ \A j \in DOMAIN before.material :
                     LET m == before.material[j]
                         n == object[i].material[j]
                     IN /\ n.side = "double"
                        /\ n.metalness = IF m.metalness \in {"undefined", "null"}
                                          THEN "0.1" ELSE m.metalness
                        /\ n.roughness = IF m.roughness \in {"undefined", "null"}
                                          THEN "0.6" ELSE m.roughness
                        /\ n.uuid = m.uuid /\ n.userData = m.userData
                /\ [object[i] EXCEPT !.material = before.material,
                                      !.castShadow = before.castShadow,
                                      !.receiveShadow = before.receiveShadow] = before
           ELSE object[i] = before

\* a graph with a group, a points node whose material has both factors
\* unset, and a mesh whose material had metalness undefined and roughness 0
C25_Witness ==
  /\ model = 1
  /\ Len(object) = 4
  /\ ~object[2].isMesh
  /\ object[2].material[1].metalness = "undefined"
  /\ object[2].material[1].side = "front"
  /\ ~object[2].castShadow
  /\ decoded.scene[3].material[1].metalness = "undefined"
  /\ decoded.scene[3].material[1].roughness = "0"
  /\ decoded.scene[3].material[1].side = "back"
  /\ object[3].material[1].metalness = "0.1"
  /\ object[3].material[1].roughness = "0"
  /\ object[3].material[1].side = "double"
  /\ object[4].material[1].metalness = "absent"

\* ------------------------------------------------- overlapping lifecycles
\* C26: in every reachable state the scene graph of the active model record
\* has not been disposed.
C26_ActiveModelNotDisposed == model # 0 => model \notin disposed

\* C27: the loading flag is true exactly while at least one load that passed
\* main-file selection is in flight.
C27_LoadingIffInFlight == loading <=> \E l \in LoadIds : InFlight(l)

\* C28: whenever a load completes successfully and its model becomes the
\* active one, no error message is displayed at that moment.
C28_NoErrorWhenModelInstalled ==
  [][\A l \in LoadIds : DecodeResolve(l) => error' = "none"]_vars

\* ------------------------------------------- displayed values and bindings
\* C29: after any sequence of Set, SetExclusive and ResetAll, for every morph
\* name that one of these operations has written, the displayed value
\* morphValues[name] equals the influence stored at every binding of the
\* name, not only at the first.
C29_WrittenValueAtEveryBinding ==
  \A name \in written :
    /\ name \in DOMAIN morphValues
    /\ \A s \in SlotsOf(object, name) : object[s[1]].infl[s[2]] = morphValues[name]

\* Smile is bound on the first and the third mesh, which the decoder left
\* at 0.4 and 0; after calls that wrote Smile and nothing else both slots
\* and the displayed value are 1, and Blink keeps its initial value
C29_Witness ==
  /\ written = {"Smile"}
  /\ Len(calls) = 2
  /\ SlotsOf(object, "Smile") = {<<1, 1>>, <<3, 1>>}
  /\ object[1].infl[1] = 10
  /\ object[3].infl[1] = 10
  /\ morphValues["Smile"] = 10

\* ------------------------------------------------------------- GPU timing
\* the queries of a deletion log
DeletedQueries(log) == { log[i].query : i \in DOMAIN log }

\* C30: at most one timer query is active at any time; every created query
\* is deleted at most once, by resolveGpuQueries in FIFO order from the
\* pending list or by clearGpuQueries, and a query that is active or pending
\* is not deleted; once the probe is disabled or unmounted no query is
\* active or pending and every created query has been deleted.
C30_TimerQueriesDeletedOnce ==
  /\ Cardinality(probe.glActive) <= 1
  /\ probe.glActive = (IF probe.activeQuery = 0 THEN {} ELSE {probe.activeQuery})
  /\ \A i \in DOMAIN probe.deleted : \A j \in DOMAIN probe.deleted :
       probe.deleted[i].query = probe.deleted[j].query => i = j
  /\ DeletedQueries(probe.deleted) \subseteq 1..probe.created
  /\ \A i \in DOMAIN probe.deleted : \A j \in DOMAIN probe.deleted :
       (i < j /\ probe.deleted[i].by = "resolve" /\ probe.deleted[j].by = "resolve")
         => probe.deleted[i].query < probe.deleted[j].query
  /\ \A i \in DOMAIN probe.pending : probe.pending[i] \notin DeletedQueries(probe.deleted)
  /\ probe.activeQuery \notin DeletedQueries(probe.deleted)
  /\ (~probe.mounted \/ ~probe.enabled)
       => /\ probe.activeQuery = 0
          /\ probe.glActive = {}
          /\ probe.pending = <<>>
          /\ DeletedQueries(probe.deleted) = 1..probe.created

\* three queries were created; the first was resolved from the pending
\* list, the second was pending and the third active when the probe was
\* unmounted
C30_Witness ==
  /\ ~probe.mounted
  /\ probe.created = 3
  /\ probe.deleted = <<Deletion(1, "resolve"), Deletion(3, "clear"), Deletion(2, "clear")>>
  /\ probe.gpuMs = 1

====
